---- MODULE Spec2Model ----
(***************************************************************************)
(* A model of the movie_filter_api pipeline:                               *)
(*   src/main.py            candidates, coarse denylist filter, renderer   *)
(*   src/api_server.py      generate(): pool accumulation, final           *)
(*                          composition, strict filter, dedup, clipping    *)
(*   src/response_budget.py enforce_response_budget(): the budget cascade  *)
(*                                                                         *)
(* Texts.  A Python str is modelled as its run-length encoding: a sequence *)
(* of runs [c |-> character, n |-> count >= 1] in which adjacent runs hold *)
(* different characters.  A character is a one-character string; the     *)
(* characters outside ASCII are named: "<ellipsis>" is U+2026, "<ta>",     *)
(* "<i>", "<nik>" are the Hangul syllables of the alias of the scenario,   *)
(* "<Alpha>", "<Delta>", "<Omicron>", "<Sigma>" and their small forms are  *)
(* Greek letters.                                                          *)
(* The encoding is exact (two strings are equal iff *)
(* their encodings are equal) and lets the model hold the long strings     *)
(* (120 and 90,000 characters) that the clipping and budget code is about. *)
(***************************************************************************)
EXTENDS Integers, Sequences, FiniteSets, TLC

Min(a, b) == IF a <= b THEN a ELSE b
Max(a, b) == IF a >= b THEN a ELSE b

\* s[:n] of a Python list
Prefix(s, n) == SubSeq(s, 1, Min(Len(s), Max(n, 0)))

ToSet(s) == {s[i] : i \in DOMAIN s}

----------------------------------------------------------------------------
(* Texts *)

Run(c, n) == [c |-> c, n |-> n]

\* the empty str
Empty == <<>>

\* the texts a and b joined: the runs that meet at the seam merge when they
\* hold the same character
Cat(a, b) ==
    IF a = <<>> THEN b
    ELSE IF b = <<>> THEN a
    ELSE IF a[Len(a)].c = b[1].c
         THEN SubSeq(a, 1, Len(a) - 1)
              \o <<Run(b[1].c, a[Len(a)].n + b[1].n)>>
              \o Tail(b)
         ELSE a \o b

\* a + b on strs, each operand evaluated once
TCat(a, b) == CHOOSE r \in {Cat(x, y) : x \in {a}, y \in {b}} : TRUE

\* the str made of the characters cs, one after the other
RECURSIVE Lit(_)
Lit(cs) == IF cs = <<>> THEN Empty
           ELSE TCat(<<Run(Head(cs), 1)>>, Lit(Tail(cs)))

\* c * n
Rep(c, n) == IF n <= 0 THEN Empty ELSE <<Run(c, n)>>

\* len(s)
RECURSIVE TLen(_)
TLen(t) == IF t = <<>> THEN 0 ELSE Head(t).n + TLen(Tail(t))

\* s[:m]
RECURSIVE TTake(_, _)
TTake(t, m) ==
    IF m <= 0 \/ t = <<>> THEN Empty
    ELSE IF Head(t).n >= m THEN <<Run(Head(t).c, m)>>
    ELSE <<Head(t)>> \o TTake(Tail(t), m - Head(t).n)

\* the characters Python's str.strip() and the regex class \s take as
\* whitespace (those the model's alphabet holds)
Whitespace == {" ", "\t", "\n"}

\* the characters of the model's alphabet that the regex class \W matches
\* (punctuation and the ellipsis); "_" is named by the pattern itself
Punctuation == {"(", ")", "-", ".", ",", ":", "!", "\"", "\\", "<ellipsis>"}

UpperChars == <<"A", "B", "C", "D", "E", "F", "G", "H", "I", "J", "K", "L", "M",
                "N", "O", "P", "Q", "R", "S", "T", "U", "V", "W", "X", "Y", "Z",
                "<Alpha>", "<Delta>", "<Omicron>">>
LowerChars == <<"a", "b", "c", "d", "e", "f", "g", "h", "i", "j", "k", "l", "m",
                "n", "o", "p", "q", "r", "s", "t", "u", "v", "w", "x", "y", "z",
                "<alpha>", "<delta>", "<omicron>">>

\* str.lower() on one character other than the capital sigma
LowerChar(c) ==
    IF \E i \in DOMAIN UpperChars : UpperChars[i] = c
    THEN LowerChars[CHOOSE i \in DOMAIN UpperChars : UpperChars[i] = c]
    ELSE c

\* the cased characters of the alphabet, and those str.lower() skips when it
\* looks for a cased neighbour of a capital sigma
Cased == ToSet(UpperChars) \cup ToSet(LowerChars)
            \cup {"<Sigma>", "<sigma>", "<fsigma>"}
CaseIgnorable == {".", ":", "'"}

\* from run i of t in direction dir, past the case-ignorable characters:
\* is the first character met a cased one
RECURSIVE CasedBeyond(_, _, _)
CasedBeyond(t, i, dir) ==
    IF i < 1 \/ i > Len(t) THEN FALSE
    ELSE IF t[i].c \in CaseIgnorable THEN CasedBeyond(t, i + dir, dir)
    ELSE t[i].c \in Cased

\* str.lower() on the run i of t, a run of capital sigmas: a capital sigma
\* that follows a cased character and is followed by none becomes the final
\* sigma U+03C2, any other the small sigma U+03C3
LowerSigma(t, i) ==
    TCat(Rep("<sigma>", t[i].n - 1),
         <<Run(IF (t[i].n > 1 \/ CasedBeyond(t, i - 1, -1))
                  /\ ~CasedBeyond(t, i + 1, 1)
               THEN "<fsigma>" ELSE "<sigma>", 1)>>)

RECURSIVE LowerFrom(_, _)
LowerFrom(t, i) ==
    IF i > Len(t) THEN Empty
    ELSE TCat(IF t[i].c = "<Sigma>" THEN LowerSigma(t, i)
              ELSE <<Run(LowerChar(t[i].c), t[i].n)>>,
              LowerFrom(t, i + 1))

\* str.lower()
TLower(t) == LowerFrom(t, 1)

\* str.lstrip() / str.rstrip() / str.strip()
RECURSIVE TLStrip(_)
TLStrip(t) == IF t = <<>> THEN Empty
              ELSE IF Head(t).c \in Whitespace THEN TLStrip(Tail(t))
              ELSE t
RECURSIVE TRStrip(_)
TRStrip(t) == IF t = <<>> THEN Empty
              ELSE IF t[Len(t)].c \in Whitespace
                   THEN TRStrip(SubSeq(t, 1, Len(t) - 1))
              ELSE t
TStrip(t) == TRStrip(TLStrip(t))

\* re.sub(r"[\s\W_]+", "", s)
RECURSIVE StripSeparators(_)
StripSeparators(t) ==
    IF t = <<>> THEN Empty
    ELSE IF Head(t).c \in Whitespace \cup Punctuation \cup {"_"}
         THEN StripSeparators(Tail(t))
    ELSE TCat(<<Head(t)>>, StripSeparators(Tail(t)))

Ellipsis == Lit(<<"<ellipsis>">>)

----------------------------------------------------------------------------
(* src/main.py: candidates and the coarse filter *)

\* Candidate(movie, scene_keys, trick_keys, one_line_pitch)
Candidate(movie, scene_keys, trick_keys, pitch) ==
    [movie |-> movie, scene_keys |-> scene_keys, trick_keys |-> trick_keys,
     one_line_pitch |-> pitch]

\* FinalItem(movie, scene, behind, vibe_point)
FinalItem(movie, scene, behind, vibe_point) ==
    [movie |-> movie, scene |-> scene, behind |-> behind, vibe_point |-> vibe_point]

scene_min == 2
trick_min == 1

\* s.strip().lower(), the stripped text being evaluated once
Folded(s) == CHOOSE r \in {TLower(t) : t \in {TStrip(s)}} : TRUE

\* a matcher that takes the title alone as enough
RowMatchesTitleOnly(c, f) ==
    Folded(c.movie) = Folded(f.movie)

\* the body of the loop of is_forbidden for the denylist row f
RowMatches(c, f) ==
    /\ Folded(c.movie) = Folded(f.movie)
    /\ Cardinality(ToSet(c.scene_keys) \cap ToSet(f.scene_keys)) >= scene_min
    /\ Cardinality(ToSet(c.trick_keys) \cap ToSet(f.trick_keys)) >= trick_min

\* is_forbidden(c, forbidden_list): the rows are tried in order, the first
\* that matches returns True
RECURSIVE is_forbidden(_, _)
is_forbidden(c, forbidden_list) ==
    IF forbidden_list = <<>> THEN FALSE
    ELSE IF RowMatches(c, Head(forbidden_list)) THEN TRUE
    ELSE is_forbidden(c, Tail(forbidden_list))

\* the body of the loop of is_forbidden raises KeyError for the row f: f has
\* no "movie" (line 36), or its title is the candidate's and it has no
\* "scene_keys" (line 38) or no "trick_keys" (line 39)
RowRaises(c, f) ==
    \/ "movie" \notin DOMAIN f
    \/ /\ Folded(c.movie) = Folded(f.movie)
       /\ ("scene_keys" \notin DOMAIN f \/ "trick_keys" \notin DOMAIN f)

\* is_forbidden(c, forbidden_list) raises: a row raises before any row
\* matches
RECURSIVE IsForbiddenRaises(_, _)
IsForbiddenRaises(c, forbidden_list) ==
    IF forbidden_list = <<>> THEN FALSE
    ELSE IF RowRaises(c, Head(forbidden_list)) THEN TRUE
    ELSE IF RowMatches(c, Head(forbidden_list)) THEN FALSE
    ELSE IsForbiddenRaises(c, Tail(forbidden_list))

\* filter_candidates(cands, forbidden_list) raises
FilterRaises(cands_, forbidden_list) ==
    \E i \in DOMAIN cands_ : IsForbiddenRaises(cands_[i], forbidden_list)

\* filter_candidates(cands, forbidden_list):
\* [c for c in cands if not is_forbidden(c, forbidden_list)]
filter_candidates(cands_, forbidden_list) ==
    LET keep(c) == ~is_forbidden(c, forbidden_list) IN SelectSeq(cands_, keep)

\* write_final: picked = cands[:k], the candidates the renderer is handed
picked(cands, k) == Prefix(cands, k)

----------------------------------------------------------------------------
(* src/api_server.py *)

\* an absent title (None)
Absent == <<Run("<none>", 0)>>

\* (s or "")
OrEmpty(s) == IF s = Absent THEN Empty ELSE s

\* _norm_title(s)
_norm_title(s) ==
    CHOOSE r \in {StripSeparators(t) : t \in {Folded(OrEmpty(s))}} : TRUE

\* row.get("movie_aliases", []) or []
RowAliases(row) ==
    IF "movie_aliases" \in DOMAIN row THEN row.movie_aliases ELSE <<>>

\* row.get("movie", "")
RowMovie(row) == IF "movie" \in DOMAIN row THEN row.movie ELSE Empty

\* _build_forbidden_title_set(forbidden)
_build_forbidden_title_set(forbidden) ==
    UNION { {_norm_title(RowMovie(forbidden[i]))}
            \cup {_norm_title(a) : a \in ToSet(RowAliases(forbidden[i]))}
            : i \in DOMAIN forbidden } \ {Empty}

MAX_SCENE_CHARS == 220
MAX_BEHIND_CHARS == 240
MAX_VIBE_CHARS == 180
MAX_TITLE_CHARS == 120

\* lines 57-59 of _clip, t the stripped text
ClipStripped(t, limit) ==
    IF TLen(t) <= limit THEN t
    ELSE TCat(TTake(t, Max(0, limit - 1)), Ellipsis)

\* _clip(s, limit)
_clip(s, limit) == CHOOSE r \in {ClipStripped(t, limit) : t \in {TStrip(s)}} : TRUE

MaxTries == 5
PoolCap == 200

\* loop conditions that are off by one, either way
LoopCondOneMore(tries_, pool, k) ==
    tries_ <= MaxTries /\ Len(pool) < Max(k * 3, 30)
LoopCondOneLess(tries_, pool, k) ==
    tries_ < MaxTries - 1 /\ Len(pool) < Max(k * 3, 30)

\* a loop that goes on to the ceiling whatever the pool holds
LoopCondNoEarlyStop(tries_, pool, k) == tries_ < MaxTries

\* the condition of the accumulation loop
LoopCond(tries_, pool, k) ==
    tries_ < MaxTries /\ Len(pool) < Max(k * 3, 30)

\* a cap that keeps the latest candidates: safe_pool[-200:]
CapPoolLatest(pool) ==
    IF Len(pool) > PoolCap THEN SubSeq(pool, Len(pool) - PoolCap + 1, Len(pool))
    ELSE pool

\* if len(safe_pool) > 200: safe_pool = safe_pool[:200]
CapPool(pool) == IF Len(pool) > PoolCap THEN Prefix(pool, PoolCap) ELSE pool

\* material = safe_pool[: max(60, target_k * 6)]
Material(pool, k) == Prefix(pool, Max(60, k * 6))

\* material2 = safe_pool[: max(120, target_k * 10)]
Material2(pool, k) == Prefix(pool, Max(120, k * 10))

\* a retry also when exactly k items were kept
ShortOfKOrEqual(kept, k) == Len(kept) <= k

\* if len(cleaned) < target_k (line 138)
ShortOfK(kept, k) == Len(kept) < k

\* the loop of _clean from finals[i] on, with the keys seen and the items
\* kept so far
RECURSIVE CleanFrom(_, _, _, _, _)
CleanFrom(fin, i, seen, out, forbidden_titles) ==
    IF i > Len(fin) THEN out
    ELSE LET key == _norm_title(fin[i].movie)
         IN  IF key = Empty \/ key \in forbidden_titles \/ key \in seen
             THEN CleanFrom(fin, i + 1, seen, out, forbidden_titles)
             ELSE CleanFrom(fin, i + 1, seen \cup {key}, Append(out, fin[i]),
                            forbidden_titles)

\* _clean(finals)
_clean(fin, forbidden_titles) == CleanFrom(fin, 1, {}, <<>>, forbidden_titles)

\* the merge loop over cleaned + cleaned2, which breaks at k items
RECURSIVE MergeFrom(_, _, _, _, _)
MergeFrom(xs, i, seen, merged, k) ==
    IF i > Len(xs) THEN merged
    ELSE LET key == _norm_title(xs[i].movie)
         IN  IF key = Empty \/ key \in seen
             THEN MergeFrom(xs, i + 1, seen, merged, k)
             ELSE IF Len(merged) + 1 >= k THEN Append(merged, xs[i])
             ELSE MergeFrom(xs, i + 1, seen \cup {key}, Append(merged, xs[i]), k)

Merge(cleaned1, cleaned2, k) == MergeFrom(cleaned1 \o cleaned2, 1, {}, <<>>, k)

\* one dict of the response
ResponseItem(x) ==
    [movie      |-> _clip(x.movie, MAX_TITLE_CHARS),
     scene      |-> _clip(x.scene, MAX_SCENE_CHARS),
     behind     |-> _clip(x.behind, MAX_BEHIND_CHARS),
     vibe_point |-> _clip(x.vibe_point, MAX_VIBE_CHARS)]

\* a response built from all of cleaned, without the [:target_k]
ResponseItemsAll(cleaned_, k) ==
    [i \in DOMAIN cleaned_ |-> ResponseItem(cleaned_[i])]

\* items = [ {...} for x in cleaned[:target_k] ]
ResponseItems(cleaned_, k) ==
    LET xs == Prefix(cleaned_, k) IN [i \in DOMAIN xs |-> ResponseItem(xs[i])]

----------------------------------------------------------------------------
(* src/response_budget.py.  A JSON value is a tagged record: None, an int,  *)
(* a str (a text), a list (a sequence of values) or a dict (a function from *)
(* its keys to values).                                                     *)

PyNone    == [t |-> "none"]
PyInt(n)  == [t |-> "int", v |-> n]
PyStr(s)  == [t |-> "str", s |-> s]
PyList(l) == [t |-> "list", l |-> l]
PyDict(d) == [t |-> "dict", d |-> d]

\* the empty dict
NoKeys == [k \in {} |-> PyNone]

\* bool(v)
Truthy(v) ==
    CASE v.t = "none" -> FALSE
      [] v.t = "int"  -> v.v # 0
      [] v.t = "str"  -> v.s # Empty
      [] v.t = "list" -> v.l # <<>>
      [] v.t = "dict" -> DOMAIN v.d # {}

\* d.get(k)
Get(d, k) == IF k \in DOMAIN d THEN d[k] ELSE PyNone

\* d[k] = v
Put(d, k, v) == [x \in DOMAIN d \cup {k} |-> IF x = k THEN v ELSE d[x]]

DigitChars == <<"0", "1", "2", "3", "4", "5", "6", "7", "8", "9">>

\* str(n) for an int n >= 0
RECURSIVE DigitsOf(_)
DigitsOf(n) ==
    IF n < 10 THEN Lit(<<DigitChars[n + 1]>>)
    ELSE TCat(DigitsOf(n \div 10), Lit(<<DigitChars[(n % 10) + 1]>>))

\* sep.join(ts)
RECURSIVE Join(_, _)
Join(sep, ts) ==
    IF ts = <<>> THEN Empty
    ELSE IF Len(ts) = 1 THEN ts[1]
    ELSE TCat(ts[1], TCat(sep, Join(sep, Tail(ts))))

CommaSpace == Lit(<<",", " ">>)

NoneText == Lit(<<"N", "o", "n", "e">>)
Quote == Lit(<<"'">>)

\* repr(e) of an element of a list: a str between quotes
ReprOf(e) ==
    CASE e.t = "none" -> NoneText
      [] e.t = "int"  -> DigitsOf(e.v)
      [] e.t = "str"  -> TCat(Quote, TCat(e.s, Quote))

\* the reprs of the elements of a list, joined as str(list) joins them
ReprList(l) == Join(CommaSpace, [i \in DOMAIN l |-> ReprOf(l[i])])

\* str(v); a list prints as the reprs of its elements
PyStrOf(v) ==
    CASE v.t = "none" -> NoneText
      [] v.t = "int"  -> DigitsOf(v.v)
      [] v.t = "str"  -> v.s
      [] v.t = "list" -> TCat(Lit(<<"[">>), TCat(ReprList(v.l), Lit(<<"]">>)))

MAX_RESPONSE_CHARS == 90000

FIELD_LIMITS ==
    [movie |-> 80, title |-> 80, year |-> 6, scene |-> 160, behind |-> 180,
     vibe_point |-> 160, reason |-> 180, why |-> 180, notes |-> 180,
     aliases |-> 220]

\* a clip that keeps limit characters and then adds the marker
ClipStrOverLimit(s, limit) ==
    IF TLen(s) <= limit THEN PyStr(s)
    ELSE PyStr(TCat(TTake(s, Max(0, limit)), Ellipsis))

\* lines 26-28 of _clip_text, s a str
ClipStr(s, limit) ==
    IF TLen(s) <= limit THEN PyStr(s)
    ELSE PyStr(TCat(TTake(s, Max(0, limit - 1)), Ellipsis))

\* _clip_text(v, limit)
_clip_text(v, limit) ==
    IF v.t = "none" THEN v
    ELSE IF v.t = "int" THEN v
    ELSE ClipStr(PyStrOf(v), limit)

keep_keys == {"movie", "title", "year", "scene", "behind", "vibe_point",
              "reason", "why", "notes", "aliases"}

\* the texts of the strs of a list
TextsOf(l) == [i \in DOMAIN l |-> l[i].s]

\* [_clip_text(x, 30) for x in l]
ClipEach30(l) == [i \in DOMAIN l |-> _clip_text(l[i], 30)]

\* the aliases of _compact_item (lines 47-48): the first 6, each clipped to
\* 30, the non-empty ones joined by ", "
JoinAliases(l) ==
    PyStr(Join(CommaSpace, TextsOf(SelectSeq(ClipEach30(Prefix(l, 6)), Truthy))))

\* lines 34-37 of _compact_item
KeptFields(item) ==
    [k \in DOMAIN item \cap keep_keys |-> _clip_text(item[k], FIELD_LIMITS[k])]

\* lines 40-43: out["movie"] from item[key] when out has no movie
MovieFrom(item, out, key) ==
    IF ~Truthy(Get(out, "movie")) /\ Truthy(Get(item, key))
    THEN Put(out, "movie", _clip_text(item[key], FIELD_LIMITS["movie"]))
    ELSE out

\* lines 46-48
WithAliases(item, out) ==
    IF "aliases" \in DOMAIN item /\ item["aliases"].t = "list"
    THEN Put(out, "aliases", JoinAliases(item["aliases"].l))
    ELSE out

\* line 51
NonBlank(out) ==
    [k \in {x \in DOMAIN out : out[x] # PyNone /\ out[x] # PyStr(Empty)} |-> out[k]]

\* _compact_item(item), item a dict
_compact_item(item) ==
    NonBlank(WithAliases(item,
        MovieFrom(item, MovieFrom(item, KeptFields(item), "movie"), "title")))

\* the characters json.dumps(ensure_ascii=False) writes for one character:
\* an escape for the quote, the backslash and the control characters
CharWidth(c) ==
    IF c \in {"\"", "\\", "\n", "\t"} THEN 2
    ELSE IF c = "<ctl>" THEN 6
    ELSE 1

RECURSIVE TJsonLen(_)
TJsonLen(t) ==
    IF t = <<>> THEN 0 ELSE Head(t).n * CharWidth(Head(t).c) + TJsonLen(Tail(t))

\* _json_len(obj): len(json.dumps(obj, ensure_ascii=False, separators=(",", ":")))
RECURSIVE _json_len(_)
RECURSIVE SumJsonLen(_, _, _)
RECURSIVE SumDictLen(_, _)
RECURSIVE KeyValueLen(_, _)
_json_len(v) ==
    CASE v.t = "none" -> 4
      [] v.t = "int"  -> TLen(DigitsOf(v.v))
      [] v.t = "str"  -> 2 + TJsonLen(v.s)
      [] v.t = "list" -> 2 + SumJsonLen(v.l, 1, Len(v.l)) + Max(0, Len(v.l) - 1)
      [] v.t = "dict" ->
            2 + SumDictLen(v.d, DOMAIN v.d) + Max(0, Cardinality(DOMAIN v.d) - 1)
\* the lengths of l[lo..hi], added up by halves
SumJsonLen(l, lo, hi) ==
    IF lo > hi THEN 0
    ELSE IF lo = hi THEN _json_len(l[lo])
    ELSE SumJsonLen(l, lo, (lo + hi) \div 2)
         + SumJsonLen(l, ((lo + hi) \div 2) + 1, hi)
\* the length of "k":value
KeyValueLen(d, k) == Len(k) + 3 + _json_len(d[k])
\* the lengths of "key":value for the keys ks of d
SumDictLen(d, ks) ==
    IF ks = {} THEN 0
    ELSE KeyValueLen(d, CHOOSE x \in ks : TRUE)
         + SumDictLen(d, ks \ {CHOOSE x \in ks : TRUE})

\* x if isinstance(x, dict) else {"movie": str(x)}
AsDict(x) == IF x.t = "dict" THEN x.d ELSE [movie |-> PyStr(PyStrOf(x))]

CompactEach(l) == [i \in DOMAIN l |-> PyDict(_compact_item(AsDict(l[i])))]

\* Tier 0 (lines 57-61)
Tier0(resp) ==
    IF "items" \in DOMAIN resp /\ resp["items"].t = "list"
    THEN Put(resp, "items", PyList(CompactEach(resp["items"].l)))
    ELSE resp

\* resp.get("items", [])
ItemsOf(resp) == IF "items" \in DOMAIN resp THEN resp["items"] ELSE PyList(<<>>)

\* whether a for loop over v calling .get on each element raises: v cannot
\* be walked (None, an int), or is a non-empty str or dict, whose
\* characters or keys have no .get
WalkRaises(v) ==
    \/ v.t \in {"none", "int"}
    \/ v.t = "str" /\ v.s # Empty
    \/ v.t = "dict" /\ DOMAIN v.d # {}

\* the loop of line 69 raises
Tier1Raises(resp) == WalkRaises(ItemsOf(resp))

mini_keys == {"movie", "year", "vibe_point", "reason"}

\* line 70
MiniFields(it) ==
    [k \in {x \in mini_keys \cap DOMAIN it : Truthy(it[x])} |-> it[k]]

\* lines 71-72
MiniTitle(it, m) ==
    IF ~Truthy(Get(m, "movie")) /\ Truthy(Get(it, "title"))
    THEN Put(m, "movie", it["title"])
    ELSE m

\* lines 73-75
MiniClip(m) ==
    [k \in DOMAIN m |->
        _clip_text(m[k], IF k \in {"vibe_point", "reason"} THEN 120 ELSE 80)]

\* one item of Tier 1 (lines 70-76)
MiniItem(it) == MiniClip(MiniTitle(it, MiniFields(it)))

MiniEach(l) == [i \in DOMAIN l |-> PyDict(MiniItem(l[i].d))]

\* the elements a for loop over v walks
Walk(v) == IF v.t = "list" THEN v.l ELSE <<>>

\* Tier 1 (lines 67-77)
Tier1(resp) == Put(resp, "items", PyList(MiniEach(Walk(ItemsOf(resp)))))

noisy_keys == {"debug", "raw", "candidates", "forbidden_hits", "logs"}

\* lines 83-85
HardClipEach(l) ==
    [i \in DOMAIN l |->
        PyDict([k \in DOMAIN l[i].d |->
                   _clip_text(l[i].d[k], IF k # "movie" THEN 60 ELSE 70)])]

\* lines 87-88
PopNoisy(resp) == [k \in DOMAIN resp \ noisy_keys |-> resp[k]]

\* Tier 2 (lines 83-88)
Tier2(resp) == PopNoisy(Put(resp, "items", PyList(HardClipEach(resp["items"].l))))

NoteText ==
    Lit(<<"R", "e", "s", "p", "o", "n", "s", "e", " ", "c", "o", "m", "p", "a",
          "c", "t", "e", "d", " ", "t", "o", " ", "f", "i", "t", " ", "A", "c",
          "t", "i", "o", "n", "s", " ", "p", "a", "y", "l", "o", "a", "d", " ",
          "l", "i", "m", "i", "t", "s", ".">>)

\* it.get("movie", "")
MovieOr(it) == IF "movie" \in DOMAIN it THEN it["movie"] ELSE PyStr(Empty)

\* [{"movie": _clip_text(it.get("movie", ""), 70)} for it in items][:10]
TitlesOnly(l) ==
    Prefix([i \in DOMAIN l |-> PyDict([movie |-> _clip_text(MovieOr(l[i].d), 70)])], 10)

\* the note the response already carries, if it is a str
OldNote(resp) ==
    IF "note" \in DOMAIN resp /\ resp["note"].t = "str" THEN resp["note"].s ELSE Empty

\* a collapse that adds its note to the note the response already carries
CollapseAppendingNote(resp) ==
    Put(Put(resp, "items", PyList(TitlesOnly(resp["items"].l))),
        "note", PyStr(TCat(OldNote(resp), NoteText)))

\* the final collapse (lines 91-92)
Collapse(resp) ==
    Put(Put(resp, "items", PyList(TitlesOnly(resp["items"].l))),
        "note", PyStr(NoteText))

\* the size of the serialized response
RespLen(resp) == _json_len(PyDict(resp))

\* what a call returns: the response and the return statement reached
\* (tier 0: line 64, 1: line 80, 2: line 94 without the collapse, 3: line 94
\* after it), or an exception
Returned(resp, tier) == [raised |-> FALSE, resp |-> resp, tier |-> tier]
Raised == [raised |-> TRUE]

\* lines 90-94, r2 the response after Tier 2
AfterTier2(r2) ==
    IF RespLen(r2) > MAX_RESPONSE_CHARS THEN Returned(Collapse(r2), 3)
    ELSE Returned(r2, 2)

\* a cascade that goes on to Tier 2 whatever the size after Tier 1
AfterTier1Eager(r1) == AfterTier2(Tier2(r1))

\* lines 79-94, r1 the response after Tier 1
AfterTier1(r1) ==
    IF RespLen(r1) <= MAX_RESPONSE_CHARS THEN Returned(r1, 1)
    ELSE AfterTier2(Tier2(r1))

\* lines 63-94, r0 the response after Tier 0
AfterTier0(r0) ==
    IF RespLen(r0) <= MAX_RESPONSE_CHARS THEN Returned(r0, 0)
    ELSE IF Tier1Raises(r0) THEN Raised
    ELSE AfterTier1(Tier1(r0))

\* enforce_response_budget(resp)
enforce_response_budget(resp) == AfterTier0(Tier0(resp))

----------------------------------------------------------------------------
(* The inputs of a run: the denylist file, the request, and what the two    *)
(* external capabilities (generate_candidates, the renderer behind          *)
(* write_final) may return.                                                 *)

MaxK == 3
BigBatchLen == 230

Titanic   == Lit(<<"T", "i", "t", "a", "n", "i", "c">>)
Inception == Lit(<<"I", "n", "c", "e", "p", "t", "i", "o", "n">>)
Parasite  == Lit(<<"P", "a", "r", "a", "s", "i", "t", "e">>)
Alien     == Lit(<<"A", "l", "i", "e", "n">>)
Dune      == Lit(<<"D", "u", "n", "e">>)
Heat      == Lit(<<"H", "e", "a", "t">>)
TitanicKo == Lit(<<"<ta>", "<i>", "<ta>", "<nik>">>)

\* casing / spacing / punctuation variants
TitanicShout  == Lit(<<" ", "T", "I", "T", "A", "N", "I", "C">>)
TitanicDashed == Lit(<<"T", "i", "-", "t", "a", "n", "i", "c">>)
TitanicKoSpaced == Lit(<<"<ta>", "<i>", " ", "<ta>", "_", "<nik>", "!">>)
AlienLower    == Lit(<<"a", "l", "i", "e", "n">>)
AlienDotted   == Lit(<<"A", ".", "L", ".", "I", ".", "E", ".", "N">>)
InceptionShout == Lit(<<" ", "I", "N", "C", "E", "P", "T", "I", "O", "N", " ">>)
DuneBang      == Lit(<<"d", "u", "n", "e", "!">>)

\* titles longer than MAX_TITLE_CHARS: "Titanic", blanks up to the limit,
\* then "x"; and two titles that differ only in their last character
TitanicLong == TCat(Titanic, TCat(Rep(" ", MAX_TITLE_CHARS - TLen(Titanic)), Lit(<<"x">>)))
HeatLongA   == TCat(Heat, TCat(Rep("z", MAX_TITLE_CHARS), Lit(<<"a">>)))
HeatLongB   == TCat(Heat, TCat(Rep("z", MAX_TITLE_CHARS), Lit(<<"b">>)))

Pitch(i) == Rep("p", i)

\* the denylist of the scenario of the specification, and a denylist whose
\* rows carry keys (the second row's movie has a trailing blank)
DenylistScenario ==
    << [fid |-> "f1", movie |-> Titanic, movie_aliases |-> <<TitanicKo>>,
        scene_keys |-> <<>>, trick_keys |-> <<>>] >>
DenylistKeys ==
    << [fid |-> "f1", movie |-> Titanic, movie_aliases |-> <<TitanicKo>>,
        scene_keys |-> <<"ship", "iceberg", "bow">>,
        trick_keys |-> <<"miniature", "tank">>],
       [fid |-> "f2", movie |-> TCat(Alien, Lit(<<" ">>)), movie_aliases |-> <<>>,
        scene_keys |-> <<"egg", "chest">>, trick_keys |-> <<"puppet">>] >>
Denylists == {DenylistScenario, DenylistKeys}

\* denylists with rows that lack keys: the rows of DenylistKeys and then a
\* row with a title alone and a row without trick_keys and aliases; one row
\* that lacks its aliases only
DenylistPartial ==
    DenylistKeys \o
    << [fid |-> "f3", movie |-> Dune],
       [fid |-> "f4", movie |-> Inception, scene_keys |-> <<"hallway">>] >>
DenylistNoAliases ==
    << [fid |-> "f1", movie |-> Titanic,
        scene_keys |-> <<"ship", "iceberg", "bow">>,
        trick_keys |-> <<"miniature", "tank">>] >>
DenylistsMissing == {DenylistPartial, DenylistNoAliases}

\* generator batches
BatchScenario ==
    << Candidate(Titanic, <<"ship", "bow">>, <<"crane">>, Pitch(1)),
       Candidate(Inception, <<"hallway">>, <<"rotating_set">>, Pitch(2)),
       Candidate(Inception, <<"city_fold">>, <<"cgi">>, Pitch(3)),
       Candidate(Parasite, <<"stairs">>, <<"set_build">>, Pitch(4)) >>
\* every candidate matches a row of DenylistKeys
BatchForbidden ==
    << Candidate(TitanicShout, <<"ship", "iceberg">>, <<"tank">>, Pitch(1)),
       Candidate(AlienLower, <<"egg", "chest", "egg">>, <<"puppet", "wire">>, Pitch(2)) >>
\* near misses of the coarse filter and one hit
BatchMixed ==
    << Candidate(Titanic, <<"deck">>, <<"crane">>, Pitch(1)),
       Candidate(Titanic, <<"ship", "ship">>, <<"tank">>, Pitch(2)),
       Candidate(Titanic, <<"ship", "bow">>, <<"crane">>, Pitch(3)),
       Candidate(TitanicKo, <<"ship", "iceberg", "bow">>, <<"tank">>, Pitch(4)),
       Candidate(TitanicDashed, <<"ship", "iceberg">>, <<"tank">>, Pitch(5)),
       Candidate(Titanic, <<"bow", "ship">>, <<"miniature">>, Pitch(6)),
       Candidate(Dune, <<"worm">>, <<"puppet">>, Pitch(7)) >>
\* more survivors than the pool holds: every tenth candidate matches a row
\* of DenylistKeys, the others carry titles of their own
BatchBig ==
    [i \in 1..BigBatchLen |->
        IF i % 10 = 0
        THEN Candidate(Titanic, <<"ship", "iceberg">>, <<"tank">>, Pitch(i))
        ELSE Candidate(TCat(Lit(<<"M">>), Rep("x", i)), <<"ship">>, <<"tank">>, Pitch(i))]
Batches == {BatchScenario, BatchForbidden, BatchMixed, BatchBig}

Plain(movie) == FinalItem(movie, Lit(<<"s">>), Lit(<<"b">>), Lit(<<"v">>))

\* a renderer that turns each candidate it is given into an item with the
\* same title
RenderSame(cs) == [i \in DOMAIN cs |-> Plain(cs[i].movie)]

\* renderer outputs that do not follow the candidates: duplicates, case and
\* spacing variants, forbidden titles and aliases, over-long titles, an
\* empty title, more items than asked for, and none at all
RenderVariants ==
    << Plain(Inception), Plain(InceptionShout), Plain(Parasite),
       Plain(AlienDotted), Plain(Dune), Plain(Heat) >>
RenderLong ==
    << Plain(TitanicLong), Plain(HeatLongA), Plain(TitanicKoSpaced),
       Plain(HeatLongB), Plain(Empty),
       FinalItem(Dune, Rep("s", MAX_SCENE_CHARS + 1), Rep("b", MAX_BEHIND_CHARS),
                 TCat(Lit(<<" ">>), Rep("v", MAX_VIBE_CHARS))) >>
RenderOverlap == << Plain(Dune), Plain(DuneBang), Plain(Parasite) >>
RenderOutputs(given) ==
    {RenderSame(given), <<>>, RenderVariants, RenderLong, RenderOverlap}

\* write_final(cands, k): what a call may return
write_final(cands, k) == RenderOutputs(picked(cands, k))

----------------------------------------------------------------------------
(* The inputs of enforce_response_budget: responses of every size class.    *)

FitItems == 5
Tier1Items == 20
Tier2Items == 60
CollapseItems == 100

\* a text of n characters c
Fill(c, n) == PyStr(Rep(c, n))

\* an item with every whitelisted field over its limit, a list of aliases
\* and a key off the whitelist
ItemFull(c) ==
    PyDict([movie |-> Fill(c, 100), title |-> Fill(c, 100), year |-> PyInt(1997),
            scene |-> Fill(c, 300), behind |-> Fill(c, 500),
            vibe_point |-> Fill(c, 300), reason |-> Fill(c, 300),
            why |-> Fill(c, 300), notes |-> Fill(c, 300),
            aliases |-> PyList(<<Fill(c, 40), PyStr(Empty), Fill(c, 10), PyNone,
                                 Fill(c, 40), Fill(c, 40), Fill(c, 40)>>),
            internal_id |-> Fill(c, 50)])

\* small items: a title but no movie, neither, falsy values, an empty movie
\* beside a title, a long year, texts of exactly and of one more than their
\* limit, and two items that are not dicts
ItemsOdd ==
    << PyDict([title |-> PyStr(Dune)]),
       PyDict([scene |-> PyStr(Heat), year |-> PyStr(Lit(<<"1", "9", "9", "7", "-", "1", "2", "-", "1", "9">>))]),
       PyDict([movie |-> PyInt(0), year |-> PyInt(0), reason |-> PyNone, title |-> PyStr(Empty)]),
       PyDict([movie |-> PyStr(Empty), title |-> PyStr(Alien), aliases |-> PyStr(TitanicKo)]),
       PyDict([movie |-> PyStr(Heat), behind |-> Fill("b", 180), reason |-> Fill("r", 181)]),
       PyStr(Heat),
       PyInt(7) >>

ItemCounts == {0, FitItems, Tier1Items, Tier2Items, CollapseItems}

ItemLists ==
    { [i \in 1..n |-> ItemFull(c)] \o odd :
        n \in ItemCounts, c \in {"a", "<ctl>"}, odd \in {<<>>, ItemsOdd} }

BigText(c) == Fill(c, MAX_RESPONSE_CHARS + 5000)

\* what the response carries beside "items"
TopLevels ==
    { NoKeys,
      [debug |-> BigText("d"), logs |-> PyList(<<Fill("l", 100)>>)],
      [meta |-> BigText("m")],
      [note |-> Fill("n", 10), count |-> PyInt(3)] }

Responses ==
    { Put(top, "items", PyList(l)) : top \in TopLevels, l \in ItemLists }
    \cup TopLevels
    \cup { Put(top, "items", v) :
             top \in TopLevels, v \in {PyStr(Heat), PyStr(Empty), PyNone} }

----------------------------------------------------------------------------
(* The inputs of _norm_title: titles as words, written with and without    *)
(* separators between the words, in upper case, and padded.                *)

Odos == Lit(<<"<Omicron>", "<Delta>", "<Omicron>", "<Sigma>">>)

TitleWords ==
    { <<Titanic>>,
      <<Titanic, Lit(<<"(", "1", "9", "9", "7", ")">>)>>,
      <<Dune, Lit(<<"P", "a", "r", "t">>), Lit(<<"2">>)>>,
      <<TitanicKo>>,
      <<Odos, Lit(<<"<Alpha>">>)>>,
      <<Lit(<<"<Alpha>", "<Sigma>", "<Sigma>">>), Lit(<<"<Sigma>", "<Alpha>">>)>>,
      <<Empty>> }

\* what is written between two words
Separators ==
    { Empty, Lit(<<" ">>), Lit(<<"_">>), Lit(<<"-">>), Lit(<<":", " ">>),
      Lit(<<" ", ".", "\t">>) }

\* the capital of a character
UpperChar(c) ==
    IF \E i \in DOMAIN LowerChars : LowerChars[i] = c
    THEN UpperChars[CHOOSE i \in DOMAIN LowerChars : LowerChars[i] = c]
    ELSE IF c \in {"<sigma>", "<fsigma>"} THEN "<Sigma>"
    ELSE c

\* t in capitals
RECURSIVE Shout(_)
Shout(t) == IF t = <<>> THEN Empty
            ELSE TCat(<<Run(UpperChar(Head(t).c), Head(t).n)>>, Shout(Tail(t)))

\* t between blanks
Padded(t) == TCat(Lit(<<" ", "\t">>), TCat(t, Lit(<<"\n", " ">>)))

\* the ways of writing the words ws
Writings(ws) ==
    {Join(sep, ws) : sep \in Separators}
      \cup {Shout(Join(sep, ws)) : sep \in Separators}
      \cup {Padded(Join(Empty, ws))}

\* the words written with nothing between them, beside each of the writings;
\* an absent title beside an empty and a blank one
TitlePairs ==
    UNION { {<<Join(Empty, ws), w>> : w \in Writings(ws)} : ws \in TitleWords }
      \cup { <<Absent, Empty>>, <<Absent, Lit(<<" ", "_", "-">>)>> }

\* a denylist with a blank title, blank aliases, a row without a title and
\* a row without aliases
DenylistBlank ==
    << [fid |-> "f1", movie |-> Lit(<<" ", "_", " ">>),
        movie_aliases |-> <<Empty, Lit(<<".", ".", ".">>), TitanicKo>>],
       [fid |-> "f2", movie_aliases |-> <<Lit(<<"\t">>)>>],
       [fid |-> "f3", movie |-> Titanic] >>
NormDenylists == {DenylistBlank, DenylistKeys}

----------------------------------------------------------------------------
(* generate(): one run of the pipeline.  pc is the position of the run:     *)
(* "accumulate" in the loop of generate_candidates calls, "retry" before    *)
(* the second write_final call, "done" after the return.                    *)

VARIABLES
    forbidden,      \* load_forbidden("forbidden.json")
    target_k,       \* req.k
    safe_pool,      \* the pool
    tries,          \* calls of generate_candidates so far
    cands,          \* the last batch generate_candidates returned
    finals,         \* what the first write_final call returned
    finals2,        \* what the second write_final call returned
    cleaned,        \* the items kept so far
    renders,        \* calls of write_final so far
    items,          \* the "items" of the response
    pc,
    b_in,           \* a response handed to enforce_response_budget
    b_once,         \* what enforce_response_budget(b_in) returned
    b_twice,        \* what enforce_response_budget(b_once.resp) returned
    b_pc,           \* "input", "once" or "twice"
    t_a,            \* a title handed to _norm_title
    t_b,            \* a title that differs from t_a in case or separators only
    key_a,          \* _norm_title(t_a)
    key_b,          \* _norm_title(t_b)
    key_aa,         \* _norm_title(key_a)
    t_pc            \* "input", "keyed" or "rekeyed"

pipeline == <<forbidden, target_k, safe_pool, tries, cands, finals, finals2,
              cleaned, renders, items, pc>>
budget == <<b_in, b_once, b_twice, b_pc>>
norm == <<t_a, t_b, key_a, key_b, key_aa, t_pc>>
vars == <<pipeline, budget, norm>>

\* no response has been handed to the enforcer
BudgetIdle ==
    /\ b_in = NoKeys
    /\ b_once = Raised
    /\ b_twice = Raised
    /\ b_pc = "idle"

\* no title has been handed to _norm_title
NormIdle ==
    /\ t_a = Empty
    /\ t_b = Empty
    /\ key_a = Empty
    /\ key_b = Empty
    /\ key_aa = Empty
    /\ t_pc = "idle"

forbidden_titles == _build_forbidden_title_set(forbidden)

Init ==
    /\ forbidden \in Denylists
    /\ target_k \in 1..MaxK
    /\ safe_pool = <<>>
    /\ tries = 0
    /\ cands = <<>>
    /\ finals = <<>>
    /\ finals2 = <<>>
    /\ cleaned = <<>>
    /\ renders = 0
    /\ items = <<>>
    /\ pc = "accumulate"
    /\ BudgetIdle
    /\ NormIdle

\* one turn of the while loop (lines 96-103)
Accumulate ==
    /\ pc = "accumulate"
    /\ LoopCond(tries, safe_pool, target_k)
    /\ \E batch \in Batches :
          /\ ~FilterRaises(batch, forbidden)
          /\ cands' = batch
          /\ safe_pool' = CapPool(safe_pool \o filter_candidates(batch, forbidden))
    /\ tries' = tries + 1
    /\ UNCHANGED <<forbidden, target_k, finals, finals2, cleaned, renders, items, pc>>
    /\ UNCHANGED <<budget, norm>>

\* one turn of the while loop in which filter_candidates raises KeyError
\* (lines 97-99): the handler ends with the exception
AccumulateRaises ==
    /\ pc = "accumulate"
    /\ LoopCond(tries, safe_pool, target_k)
    /\ \E batch \in Batches :
          /\ FilterRaises(batch, forbidden)
          /\ cands' = batch
    /\ tries' = tries + 1
    /\ pc' = "error"
    /\ UNCHANGED <<forbidden, target_k, safe_pool, finals, finals2, cleaned,
                   renders, items>>
    /\ UNCHANGED <<budget, norm>>

\* the loop is over and the pool is empty (lines 106-107)
ReturnEmpty ==
    /\ pc = "accumulate"
    /\ ~LoopCond(tries, safe_pool, target_k)
    /\ safe_pool = <<>>
    /\ items' = <<>>
    /\ pc' = "done"
    /\ UNCHANGED <<forbidden, target_k, safe_pool, tries, cands, finals, finals2,
                   cleaned, renders>>
    /\ UNCHANGED <<budget, norm>>

\* the first write_final call and what follows it up to the second call or
\* the return (lines 111-138, 160-169)
Compose ==
    /\ pc = "accumulate"
    /\ ~LoopCond(tries, safe_pool, target_k)
    /\ safe_pool # <<>>
    /\ \E out \in write_final(Material(safe_pool, target_k), target_k) :
          /\ finals' = out
          /\ cleaned' = _clean(out, forbidden_titles)
    /\ renders' = renders + 1
    /\ IF ShortOfK(cleaned', target_k)
       THEN pc' = "retry" /\ items' = items
       ELSE pc' = "done" /\ items' = ResponseItems(cleaned', target_k)
    /\ UNCHANGED <<forbidden, target_k, safe_pool, tries, cands, finals2>>
    /\ UNCHANGED <<budget, norm>>

\* a composer that calls write_final again until k items are kept
RetryUntilFilled ==
    /\ pc = "retry"
    /\ renders < 4
    /\ \E out \in write_final(Material2(safe_pool, target_k), target_k) :
          /\ finals2' = out
          /\ cleaned' = Merge(cleaned, _clean(out, forbidden_titles), target_k)
    /\ renders' = renders + 1
    /\ items' = ResponseItems(cleaned', target_k)
    /\ pc' = IF Len(cleaned') < target_k THEN "retry" ELSE "done"
    /\ UNCHANGED <<forbidden, target_k, safe_pool, tries, cands, finals>>
    /\ UNCHANGED <<budget, norm>>

\* the second write_final call, the merge and the return (lines 140-169)
Retry ==
    /\ pc = "retry"
    /\ \E out \in write_final(Material2(safe_pool, target_k), target_k) :
          /\ finals2' = out
          /\ cleaned' = Merge(cleaned, _clean(out, forbidden_titles), target_k)
    /\ renders' = renders + 1
    /\ items' = ResponseItems(cleaned', target_k)
    /\ pc' = "done"
    /\ UNCHANGED <<forbidden, target_k, safe_pool, tries, cands, finals>>
    /\ UNCHANGED <<budget, norm>>

Next == Accumulate \/ ReturnEmpty \/ Compose \/ Retry

Spec == Init /\ [][Next]_vars

\* generate() with denylists whose rows lack movie_aliases, scene_keys or
\* trick_keys.  (With the rows of Denylists, which carry every key,
\* AccumulateRaises is never enabled.)
InitMissing ==
    /\ forbidden \in DenylistsMissing
    /\ target_k \in 1..MaxK
    /\ safe_pool = <<>>
    /\ tries = 0
    /\ cands = <<>>
    /\ finals = <<>>
    /\ finals2 = <<>>
    /\ cleaned = <<>>
    /\ renders = 0
    /\ items = <<>>
    /\ pc = "accumulate"
    /\ BudgetIdle
    /\ NormIdle

NextMissing == Accumulate \/ AccumulateRaises \/ ReturnEmpty \/ Compose \/ Retry

SpecMissing == InitMissing /\ [][NextMissing]_vars

\* every call of generate_candidates and of write_final returns, so that the
\* handler goes on to its next step
SpecFair == Spec /\ WF_vars(Next)

----------------------------------------------------------------------------
(* enforce_response_budget applied to a response, and once more to what it  *)
(* returned.                                                                *)

InitBudget ==
    /\ forbidden = <<>>
    /\ target_k = 1
    /\ safe_pool = <<>>
    /\ tries = 0
    /\ cands = <<>>
    /\ finals = <<>>
    /\ finals2 = <<>>
    /\ cleaned = <<>>
    /\ renders = 0
    /\ items = <<>>
    /\ pc = "idle"
    /\ b_in \in Responses
    /\ b_once = Raised
    /\ b_twice = Raised
    /\ b_pc = "input"
    /\ NormIdle

Enforce ==
    /\ b_pc = "input"
    /\ b_once' = enforce_response_budget(b_in)
    /\ b_pc' = "once"
    /\ UNCHANGED <<b_in, b_twice, pipeline, norm>>

EnforceAgain ==
    /\ b_pc = "once"
    /\ ~b_once.raised
    /\ b_twice' = enforce_response_budget(b_once.resp)
    /\ b_pc' = "twice"
    /\ UNCHANGED <<b_in, b_once, pipeline, norm>>

NextBudget == Enforce \/ EnforceAgain

SpecBudget == InitBudget /\ [][NextBudget]_vars

----------------------------------------------------------------------------
(* _norm_title applied to two titles that differ in case or separators     *)
(* only, and once more to the key of the first; the forbidden key set of a *)
(* denylist with blank and absent titles.                                  *)

InitNorm ==
    /\ forbidden \in NormDenylists
    /\ target_k = 1
    /\ safe_pool = <<>>
    /\ tries = 0
    /\ cands = <<>>
    /\ finals = <<>>
    /\ finals2 = <<>>
    /\ cleaned = <<>>
    /\ renders = 0
    /\ items = <<>>
    /\ pc = "idle"
    /\ BudgetIdle
    /\ \E pair \in TitlePairs : t_a = pair[1] /\ t_b = pair[2]
    /\ key_a = Empty
    /\ key_b = Empty
    /\ key_aa = Empty
    /\ t_pc = "input"

Normalize ==
    /\ t_pc = "input"
    /\ key_a' = _norm_title(t_a)
    /\ key_b' = _norm_title(t_b)
    /\ t_pc' = "keyed"
    /\ UNCHANGED <<t_a, t_b, key_aa, pipeline, budget>>

NormalizeKey ==
    /\ t_pc = "keyed"
    /\ key_aa' = _norm_title(key_a)
    /\ t_pc' = "rekeyed"
    /\ UNCHANGED <<t_a, t_b, key_a, key_b, pipeline, budget>>

NextNorm == Normalize \/ NormalizeKey

SpecNorm == InitNorm /\ [][NextNorm]_vars

----------------------------------------------------------------------------
(* Properties of generate() *)

ItemKeys == [i \in DOMAIN items |-> _norm_title(items[i].movie)]

\* the keys of every denylist row's movie and of every one of its aliases
DenylistKeySet ==
    { _norm_title(forbidden[r].movie) : r \in DOMAIN forbidden }
    \cup UNION { { _norm_title(forbidden[r].movie_aliases[a])
                   : a \in DOMAIN forbidden[r].movie_aliases }
                 : r \in DOMAIN forbidden }

\* C1: no item of the returned response (title clipped) has a normalized
\* title key that is the key of a denylist movie or alias.
C1_NoForbiddenTitleReturned ==
    pc = "done" => \A i \in DOMAIN items : ItemKeys[i] \notin DenylistKeySet

\* C2: no two items of the returned response have equal normalized title
\* keys.
C2_UniqueTitleKeys ==
    pc = "done" =>
        \A i, j \in DOMAIN items : i # j => ItemKeys[i] # ItemKeys[j]

\* C3: the response never holds more than k items, with or without the
\* retry, whatever the renderer returns.
C3_AtMostK == Len(items) <= target_k

\* C3 witness: the retry path, the renderer returned more than k items in
\* its second call, and the response holds exactly k.
C3_Witness ==
    /\ pc = "done" /\ renders = 2
    /\ Len(finals2) > target_k
    /\ Len(items) = target_k

\* C5 as stated: never more than 4 calls of generate_candidates.
C5_AtMost4Calls == tries <= 4

\* C5 amended: never more than 5 calls of generate_candidates in one run.
C5_AtMost5Calls == tries <= 5

C5_Witness == pc = "done" /\ tries = 5 /\ Len(safe_pool) > 0

\* the earliest 200 elements of a sequence (all of it, if it has fewer)
Earliest200(all) == SubSeq(all, 1, Min(200, Len(all)))

CoarseForbidden(c) ==
    \E r \in DOMAIN forbidden :
        /\ TLower(TStrip(forbidden[r].movie)) = TLower(TStrip(c.movie))
        /\ \E a, b \in ToSet(c.scene_keys) \cap ToSet(forbidden[r].scene_keys) : a # b
        /\ \E t \in ToSet(c.trick_keys) : t \in ToSet(forbidden[r].trick_keys)

\* the candidates of the batch b that are not coarsely forbidden, in the
\* order of b
CoarseSurvivors(b) ==
    LET kept(c) == ~CoarseForbidden(c) IN SelectSeq(b, kept)

\* C7: a turn of the loop appends to the pool exactly the candidates of the
\* batch that are not coarsely forbidden, in the order of the batch (up to
\* the cap of the pool).
C7_CoarseFilter ==
    [][tries' = tries + 1 =>
          safe_pool' = Earliest200(safe_pool \o CoarseSurvivors(cands'))]_vars

\* C7 witness: of BatchMixed under DenylistKeys only the sixth candidate is
\* dropped; "Titanic" with no scene key in common, "Titanic" with one, the
\* alias and the dashed title with all keys in common survive, in order.
C7_Witness ==
    /\ tries = 1 /\ cands = BatchMixed /\ forbidden = DenylistKeys
    /\ Len(safe_pool) = 6
    /\ safe_pool[1] = BatchMixed[1] /\ safe_pool[4] = BatchMixed[4]
    /\ safe_pool[6] = BatchMixed[7]

RECURSIVE Times(_, _)
Times(s, n) == IF n = 0 THEN <<>> ELSE s \o Times(s, n - 1)

\* the scenario: the denylist of the scenario, k = 3, every batch was
\* BatchScenario, and each call of the renderer returned the candidates it
\* was given, title for title
ScenarioRun ==
    /\ forbidden = DenylistScenario
    /\ target_k = 3
    /\ safe_pool = Times(BatchScenario, tries)
    /\ renders >= 1 => finals = RenderSame(picked(Material(safe_pool, target_k), target_k))
    /\ renders >= 2 => finals2 = RenderSame(picked(Material2(safe_pool, target_k), target_k))

\* C8: the scenario returns exactly Inception and Parasite, in that order,
\* after exactly one retry.
C8_ScenarioInceptionParasite ==
    (pc = "done" /\ ScenarioRun) =>
        /\ renders = 2
        /\ [i \in DOMAIN items |-> items[i].movie] = <<Inception, Parasite>>

\* C9 as stated: with every candidate of every batch coarsely forbidden the
\* run ends after exactly 4 generation attempts, empty-handed.
C9_FourAttempts ==
    (pc = "done" /\ safe_pool = <<>>) =>
        tries = 4 /\ items = <<>> /\ renders = 0

\* C9 amended: ... after exactly 5 generation attempts, with an empty pool,
\* an empty item list and no call of the renderer.
C9_FiveAttempts ==
    /\ (pc = "done" /\ safe_pool = <<>>) =>
          tries = 5 /\ items = <<>> /\ renders = 0
    /\ (pc = "accumulate" /\ safe_pool = <<>> /\ tries < 5) => ENABLED Accumulate

C9_Witness ==
    /\ pc = "done" /\ safe_pool = <<>> /\ tries = 5
    /\ cands = BatchForbidden /\ forbidden = DenylistKeys

\* C13: write_final is called at most twice in a run, the calls of
\* generate_candidates and write_final together are bounded, and every run
\* whose calls return reaches its returned response.
C13_BoundedRendering ==
    /\ [](renders <= 2)
    /\ [](tries + renders <= MaxTries + 2)
    /\ <>(pc = "done")

\* a run that returned fewer than k items after its one retry
C13_Witness ==
    /\ pc = "done"
    /\ renders = 2
    /\ Len(items) < target_k

\* C14 as stated: the second call of write_final is made only when fewer
\* than k items survived the first attempt and the pool holds candidates
\* beyond the first material slice.
C14_RetryNeedsUnusedMaterial ==
    renders = 2 =>
        /\ Len(_clean(finals, forbidden_titles)) < target_k
        /\ Len(safe_pool) > Len(Material(safe_pool, target_k))

\* C14 amended: the second call of write_final is made exactly when fewer
\* than k items survived the first attempt, whether or not the pool holds
\* candidates beyond the first material slice.
C14_RetryIffShort ==
    /\ pc = "retry" => (renders = 1 /\ Len(cleaned) < target_k)
    /\ renders = 2 => (pc = "done" /\ Len(_clean(finals, forbidden_titles)) < target_k)
    /\ (pc = "done" /\ renders = 1) => Len(cleaned) >= target_k

\* a retry in a run whose first material slice was the whole pool
C14_Witness ==
    /\ pc = "done"
    /\ renders = 2
    /\ Material(safe_pool, target_k) = safe_pool
    /\ Len(_clean(finals, forbidden_titles)) < target_k

\* C15: when the composer retries and the pool is larger than the first
\* material slice, the candidates handed to the renderer in the second
\* attempt are a proper extension of those handed to it in the first.
C15_RetryHandsMore ==
    (renders = 2 /\ Len(safe_pool) > Len(Material(safe_pool, target_k))) =>
        /\ Len(picked(Material2(safe_pool, target_k), target_k))
              > Len(picked(Material(safe_pool, target_k), target_k))
        /\ ToSet(picked(Material(safe_pool, target_k), target_k))
              \subseteq ToSet(picked(Material2(safe_pool, target_k), target_k))
        /\ ToSet(picked(Material2(safe_pool, target_k), target_k))
              # ToSet(picked(Material(safe_pool, target_k), target_k))

\* C16: once the pool holds max(3*k, 30) candidates at the end of an attempt
\* no further call of generate_candidates is made; while the pool is below
\* that and fewer than the ceiling of attempts were made, the next step of
\* the run is another attempt.
C16_EarlyStop ==
    /\ [][/\ Len(safe_pool) >= Max(3 * target_k, 30) => tries' = tries
          /\ (/\ pc = "accumulate"
              /\ Len(safe_pool) < Max(3 * target_k, 30)
              /\ tries < MaxTries) => tries' = tries + 1]_vars
    /\ []((/\ pc = "accumulate"
           /\ Len(safe_pool) < Max(3 * target_k, 30)
           /\ tries < MaxTries) => ENABLED Accumulate)

\* a run that went on to compose before the ceiling of attempts, its pool
\* having reached the target after an attempt that began below it
C16_Witness ==
    /\ pc \in {"retry", "done"}
    /\ tries \in 2..(MaxTries - 1)
    /\ Len(safe_pool) >= Max(3 * target_k, 30)
    /\ renders >= 1

\* C17: a denylist row that lacks movie_aliases, scene_keys or trick_keys
\* never makes the run fail, and the title of every row is still kept out of
\* the items the strict filter lets through.
C17_MissingFieldsNeverFail ==
    /\ pc # "error"
    /\ \A i \in DOMAIN cleaned : \A j \in DOMAIN forbidden :
          _norm_title(cleaned[i].movie) # _norm_title(RowMovie(forbidden[j]))

\* C20: a run that has returned went through pool accumulation, then
\* composition (none for the empty-pool response), then
\* enforce_response_budget, and only then the return: no response reaches
\* the caller that enforce_response_budget was not handed.
C20_EnforcedBeforeReturn ==
    /\ renders >= 1 => tries >= 1
    /\ pc = "done" => (tries >= 1 /\ b_pc # "idle")

(***************************************************************************)
(* Properties of enforce_response_budget                                   *)
(***************************************************************************)

\* C4: for every input response, enforce_response_budget returns without
\* raising, and the compact JSON serialization of what it returns is at most
\* MAX_RESPONSE_CHARS characters.
C4_WithinBudget ==
    b_pc \in {"once", "twice"} =>
        /\ ~b_once.raised
        /\ RespLen(b_once.resp) <= MAX_RESPONSE_CHARS

\* C10: applying enforce_response_budget to its own result returns (without
\* raising) a response whose serialized size is less than or equal to the
\* serialized size of the first result.
C10_NonExpanding ==
    b_pc = "twice" =>
        /\ ~b_twice.raised
        /\ RespLen(b_twice.resp) <= RespLen(b_once.resp)

\* the second application runs the whole cascade again: the first result is a
\* collapsed response that is still over the budget
C10_Witness ==
    /\ b_pc = "twice"
    /\ b_once.tier = 3
    /\ RespLen(b_once.resp) > MAX_RESPONSE_CHARS
    /\ ~b_twice.raised
    /\ b_twice.tier = 3
    /\ Len(b_once.resp["items"].l) > 0

\* out is what the clipping rule makes of the text in under the limit L
ClippedTo(in, out, L) ==
    IF TLen(in) <= L THEN out = in
    ELSE /\ TLen(out) = L
         /\ TTake(out, L - 1) = TTake(in, L - 1)
         /\ out[Len(out)] = Run("<ellipsis>", 1)

\* the rule for every non-empty text field of every dict item of a response
\* that Tier 0 alone made fit, the limit of behind being behindLimit
ClippingRule(behindLimit) ==
    (/\ b_pc \in {"once", "twice"}
     /\ ~b_once.raised
     /\ "items" \in DOMAIN b_in
     /\ b_in["items"].t = "list") =>
        (b_once.tier = 0 =>
            \A i \in DOMAIN b_in["items"].l :
                b_in["items"].l[i].t = "dict" =>
                    \A k \in DOMAIN b_in["items"].l[i].d \cap keep_keys :
                        (/\ b_in["items"].l[i].d[k].t = "str"
                         /\ b_in["items"].l[i].d[k].s # Empty) =>
                            /\ k \in DOMAIN b_once.resp["items"].l[i].d
                            /\ b_once.resp["items"].l[i].d[k].t = "str"
                            /\ ClippedTo(b_in["items"].l[i].d[k].s,
                                         b_once.resp["items"].l[i].d[k].s,
                                         IF k = "behind" THEN behindLimit
                                         ELSE FIELD_LIMITS[k]))

\* C11 as stated: at Tier 0 a text longer than its field limit L becomes its
\* first L-1 characters and the marker, a text of at most L characters is
\* unchanged, and the limit of behind is 160 (a 500-character behind comes
\* out as 159 characters and the marker).
C11_BehindLimit160 == ClippingRule(160)

\* C11 amended: the same rule, the limit of behind being 180 (a 500-character
\* behind comes out as 179 characters and the marker).
C11_BehindLimit180 == ClippingRule(180)

\* a 500-character behind that Tier 0 clipped to 180
C11_Witness ==
    /\ b_pc = "once"
    /\ ~b_once.raised
    /\ b_once.tier = 0
    /\ "items" \in DOMAIN b_in
    /\ b_in["items"].t = "list"
    /\ \E i \in DOMAIN b_in["items"].l :
          /\ b_in["items"].l[i].t = "dict"
          /\ "behind" \in DOMAIN b_in["items"].l[i].d
          /\ TLen(b_in["items"].l[i].d["behind"].s) = 500
          /\ TLen(b_once.resp["items"].l[i].d["behind"].s) = 180

\* the items of a response, none when "items" is not a list
ItemList(resp) ==
    IF "items" \in DOMAIN resp /\ resp["items"].t = "list" THEN resp["items"].l
    ELSE <<>>

\* the fields of an item, none when it is not a dict
FieldsOf(x) == IF x.t = "dict" THEN x.d ELSE NoKeys

\* the length of a value as text
TextLen(v) == TLen(PyStrOf(v))

\* a stage took the response from before to after without adding a field to
\* an item, lengthening a text or raising the serialized size
StageShrinks(before, after) ==
    /\ RespLen(after) <= RespLen(before)
    /\ Len(ItemList(after)) <= Len(ItemList(before))
    /\ \A i \in DOMAIN ItemList(after) :
          /\ DOMAIN FieldsOf(ItemList(after)[i]) \subseteq DOMAIN FieldsOf(ItemList(before)[i])
          /\ \A k \in DOMAIN FieldsOf(ItemList(after)[i]) :
                TextLen(FieldsOf(ItemList(after)[i])[k])
                    <= TextLen(FieldsOf(ItemList(before)[i])[k])

\* C18: every stage of enforce_response_budget that a call goes through
\* (Tier 0 from the input, Tier 1 from Tier 0, Tier 2 from Tier 1, the
\* collapse from Tier 2) gives no item a field it did not have, lengthens no
\* text and does not raise the serialized size.
C18_OneDirectional ==
    b_pc \in {"once", "twice"} =>
        /\ StageShrinks(b_in, Tier0(b_in))
        /\ (~b_once.raised /\ b_once.tier >= 1) =>
              StageShrinks(Tier0(b_in), Tier1(Tier0(b_in)))
        /\ (~b_once.raised /\ b_once.tier >= 2) =>
              StageShrinks(Tier1(Tier0(b_in)), Tier2(Tier1(Tier0(b_in))))
        /\ (~b_once.raised /\ b_once.tier = 3) =>
              StageShrinks(Tier2(Tier1(Tier0(b_in))), b_once.resp)

\* the collapse of r2: at most 10 items, the first ones of r2 in order,
\* each with its title alone, of at most 70 characters, and the note
Collapsed(r2, out) ==
    /\ Len(ItemList(out)) = IF Len(ItemList(r2)) < 10 THEN Len(ItemList(r2)) ELSE 10
    /\ \A i \in DOMAIN ItemList(out) :
          /\ DOMAIN ItemList(out)[i].d = {"movie"}
          /\ TextLen(ItemList(out)[i].d["movie"]) <= 70
          /\ ItemList(out)[i].d["movie"] =
                IF "movie" \in DOMAIN ItemList(r2)[i].d
                THEN ItemList(r2)[i].d["movie"] ELSE PyStr(Empty)
    /\ "note" \in DOMAIN out
    /\ out["note"] = PyStr(NoteText)

\* the note of a response that was not collapsed: none (whenIn FALSE), or
\* the one the call was handed (whenIn TRUE)
NoteUntouched(in, out, whenIn) ==
    IF whenIn /\ "note" \in DOMAIN in
    THEN "note" \in DOMAIN out /\ out["note"] = in["note"]
    ELSE "note" \notin DOMAIN out

\* a call enforce_response_budget(in) that returned out went on to a tier
\* only when the size after the tier before it was over the ceiling,
\* returned the response of the last tier it applied, collapsed as
\* Collapsed says, and left the note as NoteUntouched says otherwise
TiersAsNeeded(in, out, whenIn) ==
    /\ out.raised => RespLen(Tier0(in)) > MAX_RESPONSE_CHARS
    /\ ~out.raised =>
        /\ out.tier = 0 <=> RespLen(Tier0(in)) <= MAX_RESPONSE_CHARS
        /\ out.tier = 0 => out.resp = Tier0(in)
        /\ out.tier >= 1 =>
            /\ out.tier = 1 <=> RespLen(Tier1(Tier0(in))) <= MAX_RESPONSE_CHARS
            /\ out.tier = 1 => out.resp = Tier1(Tier0(in))
        /\ out.tier >= 2 =>
            /\ out.tier = 2 <=>
                  RespLen(Tier2(Tier1(Tier0(in)))) <= MAX_RESPONSE_CHARS
            /\ out.tier = 2 => out.resp = Tier2(Tier1(Tier0(in)))
        /\ out.tier = 3 => Collapsed(Tier2(Tier1(Tier0(in))), out.resp)
        /\ out.tier # 3 => NoteUntouched(in, out.resp, whenIn)

\* C19 as stated: a tier is applied only if the size after the tier before
\* it is over MAX_RESPONSE_CHARS; a collapsed response holds at most 10
\* items, the first ones in order, each with a clipped title alone, and the
\* note; a response that was not collapsed has no note.
C19_NoteAbsentUnlessCollapsed ==
    /\ b_pc \in {"once", "twice"} => TiersAsNeeded(b_in, b_once, FALSE)
    /\ b_pc = "twice" => TiersAsNeeded(b_once.resp, b_twice, FALSE)

\* C19 amended: the same, but a response that was not collapsed has the
\* note it was handed, and none if it was handed none.
C19_TiersAsNeeded ==
    /\ b_pc \in {"once", "twice"} => TiersAsNeeded(b_in, b_once, TRUE)
    /\ b_pc = "twice" => TiersAsNeeded(b_once.resp, b_twice, TRUE)

\* a response of more than 10 items that came out collapsed to 10
C19_Witness ==
    /\ b_pc = "once"
    /\ ~b_once.raised
    /\ b_once.tier = 3
    /\ Len(ItemList(b_in)) > 10
    /\ Len(ItemList(b_once.resp)) = 10
    /\ b_once.resp["note"] = PyStr(NoteText)

(***************************************************************************)
(* Properties of _norm_title                                               *)
(***************************************************************************)

\* C12: _norm_title is idempotent, two titles that differ only in case or in
\* whitespace, punctuation and underscores get the same key, an empty or
\* absent title gets the empty key, and the empty key is never in the
\* forbidden key set.
C12_NormTitle ==
    /\ t_pc = "rekeyed" => key_aa = key_a
    /\ t_pc \in {"keyed", "rekeyed"} => key_a = key_b
    /\ (t_pc \in {"keyed", "rekeyed"} /\ t_a \in {Absent, Empty}) => key_a = Empty
    /\ Empty \notin forbidden_titles

\* the parts of C12 other than the equal keys of differing writings
C12_IdempotentAndEmptyKey ==
    /\ t_pc = "rekeyed" => key_aa = key_a
    /\ (t_pc \in {"keyed", "rekeyed"} /\ t_a \in {Absent, Empty}) => key_a = Empty
    /\ Empty \notin forbidden_titles
====
